---- MODULE Spec2Model ----
(***************************************************************************)
(* IPNS public-key identity codec of ed25519-keygen (src/src/ipns.ts):     *)
(* formatPublicKey, parseAddress and getKeys, with the parts of            *)
(* @scure/base (hex, base32) and of BigInt arithmetic they rely on.        *)
(*                                                                         *)
(* A JavaScript string is a sequence of one-character strings, a           *)
(* Uint8Array a sequence of 0..255, a BigInt a sign and a magnitude kept   *)
(* as big-endian base-256 digits (TLC integers are 32 bits wide, the       *)
(* tagged key is 320 bits).                                                *)
(***************************************************************************)
EXTENDS Integers, Sequences, FiniteSets, TLC

(***************************************************************************)
(* Characters and strings                                                  *)
(***************************************************************************)
Digits == <<"0", "1", "2", "3", "4", "5", "6", "7", "8", "9">>
LowerLetters ==
    <<"a", "b", "c", "d", "e", "f", "g", "h", "i", "j", "k", "l", "m", "n",
    "o", "p", "q", "r", "s", "t", "u", "v", "w", "x", "y", "z">>
UpperLetters ==
    <<"A", "B", "C", "D", "E", "F", "G", "H", "I", "J", "K", "L", "M", "N",
    "O", "P", "Q", "R", "S", "T", "U", "V", "W", "X", "Y", "Z">>

\* position of ch in alphabet counted from 0, -1 when absent (String.indexOf
\* with a one-character argument)
IndexOf(alphabet, ch) ==
  IF \E i \in 1..Len(alphabet) : alphabet[i] = ch
  THEN (CHOOSE i \in 1..Len(alphabet) : alphabet[i] = ch) - 1
  ELSE -1

ToLowerCaseChar(c) ==
  LET i == IndexOf(UpperLetters, c) IN IF i >= 0 THEN LowerLetters[i + 1] ELSE c

ToUpperCaseChar(c) ==
  LET i == IndexOf(LowerLetters, c) IN IF i >= 0 THEN UpperLetters[i + 1] ELSE c

\* a function on 1..n as a tuple
AsSeq(f, n) == SubSeq(f, 1, n)

ToLowerCase(s) == AsSeq([i \in 1..Len(s) |-> ToLowerCaseChar(s[i])], Len(s))

ToUpperCase(s) == AsSeq([i \in 1..Len(s) |-> ToUpperCaseChar(s[i])], Len(s))

StartsWith(s, p) == Len(s) >= Len(p) /\ SubSeq(s, 1, Len(p)) = p

\* s.slice(k)
Slice(s, k) == SubSeq(s, k + 1, Len(s))

\* PadStart without the padding
PadStartNone(s, n, ch) == s

\* s.padStart(n, ch)
PadStart(s, n, ch) ==
  IF Len(s) >= n THEN s ELSE AsSeq([i \in 1..(n - Len(s)) |-> ch], n - Len(s)) \o s

Pow2(n) == 2 ^ n

\* for (i = lo; i < hi; i++) state = Body(state, i). TLC evaluates operator
\* arguments on demand, so the index range is halved and the state after the
\* first half is computed (by the test left = left) before the second half
\* starts: the evaluation stack stays logarithmic in hi - lo.
Loop(Body(_, _), state, lo, hi) ==
  LET RECURSIVE run(_, _, _)
      run(st, a, b) ==
        IF b <= a THEN st
        ELSE IF b = a + 1 THEN Body(st, a)
        ELSE LET mid == (a + b) \div 2
                 left == run(st, a, mid)
             IN IF left = left THEN run(left, mid, b) ELSE st
  IN run(state, lo, hi)

(***************************************************************************)
(* @scure/base: convertRadix2, alphabet, padding, hex, base32              *)
(***************************************************************************)
Ok(v) == [ok |-> TRUE, val |-> v, err |-> ""]
Err(e) == [ok |-> FALSE, val |-> <<>>, err |-> e]

\* for (; pos >= to; pos -= to) res.push((carry >> (pos - to)) & mask)
RECURSIVE Radix2Emit(_, _, _, _)
Radix2Emit(carry, pos, to, res) ==
  IF pos >= to
  THEN Radix2Emit(carry, pos - to, to,
                  Append(res, (carry \div Pow2(pos - to)) % Pow2(to)))
  ELSE [pos |-> pos, res |-> res]

\* one round of convertRadix2's loop over the data words; st.err is the
\* error thrown in an earlier round, if any
Radix2Step(data, from, to, st, i) ==
  IF st.err # "" THEN st
  ELSE IF data[i] >= Pow2(from)
  THEN [st EXCEPT !.err = "convertRadix2: invalid data word"]
  ELSE IF st.pos + from > 32 THEN [st EXCEPT !.err = "convertRadix2: carry overflow"]
  ELSE LET c == st.carry * Pow2(from) + data[i]
           e == Radix2Emit(c, st.pos + from, to, st.res)
       IN [carry |-> c % Pow2(e.pos), pos |-> e.pos, res |-> e.res, err |-> ""]

ConvertRadix2(data, from, to, padding) ==
  LET Body(st, i) == Radix2Step(data, from, to, st, i)
      end == Loop(Body, [carry |-> 0, pos |-> 0, res |-> <<>>, err |-> ""],
                  1, Len(data) + 1)
      last == (end.carry * Pow2(to - end.pos)) % Pow2(to)
  IN IF end.err # "" THEN Err(end.err)
     ELSE IF ~padding /\ end.pos >= from THEN Err("Excess padding")
     ELSE IF ~padding /\ last # 0 THEN Err("Non-zero padding")
     ELSE IF padding /\ end.pos > 0 THEN Ok(Append(end.res, last))
     ELSE Ok(end.res)

\* alphabet(letters).decode: every letter must be in the alphabet
AlphabetDecode(alphabet, s) ==
  IF \E i \in 1..Len(s) : IndexOf(alphabet, s[i]) < 0
  THEN Err("Unknown letter")
  ELSE Ok(AsSeq([i \in 1..Len(s) |-> IndexOf(alphabet, s[i])], Len(s)))

AlphabetEncode(alphabet, digits) ==
  AsSeq([i \in 1..Len(digits) |-> alphabet[digits[i] + 1]], Len(digits))

HexAlphabet ==
  <<"0", "1", "2", "3", "4", "5", "6", "7", "8", "9", "a", "b", "c", "d", "e", "f">>
Base32Alphabet ==
    <<"A", "B", "C", "D", "E", "F", "G", "H", "I", "J", "K", "L", "M", "N",
    "O", "P", "Q", "R", "S", "T", "U", "V", "W", "X", "Y", "Z", "2", "3",
    "4", "5", "6", "7">>

\* hex.encode: radix2(4), alphabet('0123456789abcdef'), join('')
HexEncode(bytes) == AlphabetEncode(HexAlphabet, ConvertRadix2(bytes, 8, 4, TRUE).val)

\* hex.decode: normalize (even length, lower case), alphabet, radix2(4)
HexDecode(s) ==
  IF Len(s) % 2 # 0 THEN Err("hex.decode: padded hex string expected")
  ELSE LET d == AlphabetDecode(HexAlphabet, ToLowerCase(s)) IN
       IF ~d.ok THEN d ELSE ConvertRadix2(d.val, 4, 8, FALSE)

\* padding(5).encode: while ((length * bits) % 8) push('=')
RECURSIVE PaddingEncode(_)
PaddingEncode(s) ==
  IF (Len(s) * 5) % 8 # 0 THEN PaddingEncode(Append(s, "=")) ELSE s

\* padding(5).decode: the loop that drops trailing '='
RECURSIVE PaddingStrip(_, _)
PaddingStrip(s, end) ==
  IF end > 0 /\ s[end] = "="
  THEN IF ((end - 1) * 5) % 8 = 0
       THEN Err("Invalid padding: string has too much padding")
       ELSE PaddingStrip(s, end - 1)
  ELSE Ok(SubSeq(s, 1, end))

PaddingDecode(s) ==
  IF (Len(s) * 5) % 8 # 0
  THEN Err("Invalid padding: string should have whole number of bytes")
  ELSE PaddingStrip(s, Len(s))

\* base32.encode: radix2(5), alphabet(RFC 4648), padding(5), join('')
Base32Encode(bytes) ==
  PaddingEncode(AlphabetEncode(Base32Alphabet, ConvertRadix2(bytes, 8, 5, TRUE).val))

\* base32.decode: the chain run backwards
Base32Decode(s) ==
  LET p == PaddingDecode(s) IN
  IF ~p.ok THEN p
  ELSE LET d == AlphabetDecode(Base32Alphabet, p.val) IN
       IF ~d.ok THEN d ELSE ConvertRadix2(d.val, 5, 8, FALSE)

(***************************************************************************)
(* BigInt: [neg, mag], mag the big-endian base-256 digits without leading  *)
(* zeros (<<>> is 0)                                                       *)
(***************************************************************************)
StripZeros(d) ==
  IF \A i \in 1..Len(d) : d[i] = 0 THEN <<>>
  ELSE SubSeq(d, CHOOSE i \in 1..Len(d) : d[i] # 0 /\ \A j \in 1..(i - 1) : d[j] = 0,
              Len(d))

\* the base-256 digits of a small natural number
RECURSIVE SmallDigits(_)
SmallDigits(c) == IF c = 0 THEN <<>> ELSE Append(SmallDigits(c \div 256), c % 256)

\* mag * m + c by schoolbook multiplication from the least significant digit;
\* c may be negative as long as the result is not
MagMulAdd(mag, m, c) ==
  LET Body(st, k) ==
        LET v == mag[Len(mag) - k] * m + st.carry
        IN [carry |-> v \div 256, acc |-> <<v % 256>> \o st.acc]
      end == Loop(Body, [carry |-> c, acc |-> <<>>], 0, Len(mag))
  IN StripZeros(SmallDigits(end.carry) \o end.acc)

\* r * m + d for a BigInt r and integers m > 0, -m < d < m
BigIntMulAdd(r, m, d) ==
  IF r.neg THEN [neg |-> TRUE, mag |-> MagMulAdd(r.mag, m, -d)]
  ELSE IF d < 0 /\ r.mag = <<>> THEN [neg |-> TRUE, mag |-> SmallDigits(-d)]
  ELSE [neg |-> FALSE, mag |-> MagMulAdd(r.mag, m, d)]

\* long division of mag by m from the most significant digit
MagDivMod(mag, m) ==
  LET Body(st, i) ==
        LET cur == st.r * 256 + mag[i]
        IN [q |-> Append(st.q, cur \div m), r |-> cur % m]
      end == Loop(Body, [q |-> <<>>, r |-> 0], 1, Len(mag) + 1)
  IN [q |-> StripZeros(end.q), r |-> end.r]

\* the digits of mag in the given radix, most significant first: divide until
\* nothing is left (a digit of mag gives at most 8 digits of any radix)
MagToDigits(mag, radix) ==
  LET Body(st, k) ==
        IF st.mag = <<>> THEN st
        ELSE LET qr == MagDivMod(st.mag, radix)
             IN [mag |-> qr.q, acc |-> <<qr.r>> \o st.acc]
  IN Loop(Body, [mag |-> mag, acc |-> <<>>], 0, 8 * Len(mag)).acc

\* alphabet of BigInt.prototype.toString and of parseAddress (ipns.ts:30)
b36 == Digits \o LowerLetters

\* BigInt.prototype.toString(radix)
BigIntToString(b, radix) ==
  (IF b.neg THEN <<"-">> ELSE <<>>)
    \o (IF b.mag = <<>> THEN <<"0">>
        ELSE AlphabetEncode(b36, MagToDigits(b.mag, radix)))

\* BigInt(`0x${s}`): SyntaxError on an empty or non-hexadecimal s
BigIntFromHex(s) ==
  LET d == AlphabetDecode(HexAlphabet, ToLowerCase(s))
      n == Len(s)
      \* the hexadecimal digit of weight 16^k, 0 beyond the most significant
      nib(k) == IF k < n THEN d.val[n - k] ELSE 0
      len == (n + 1) \div 2
  IN IF s = <<>> \/ ~d.ok THEN Err("SyntaxError: Cannot convert to a BigInt")
     ELSE Ok([neg |-> FALSE,
              mag |-> StripZeros(AsSeq([i \in 1..len |->
                        nib(2 * (len - i) + 1) * 16 + nib(2 * (len - i))], len))])

(***************************************************************************)
(* src/src/ipns.ts                                                         *)
(***************************************************************************)
Scheme == <<"i", "p", "n", "s", ":", "/", "/">>
KeyPrefixHex ==
  <<"0", "1", "7", "2", "0", "0", "2", "4", "0", "8", "0", "1", "1", "2", "2", "0">>
PublicKeyTag == <<1, 114, 0, 36, 8, 1, 18, 32>>
PrivateKeyTag == <<8, 1, 18, 64>>
SchemeLen == 7
HexKeyLen == 80
SeedLen == 32
Radix == 36

\* how a call ended: its return value, or the error it threw
Returned(v) == [status |-> "returned", value |-> v, error |-> "", detail |-> <<>>]
Thrown(e, d) == [status |-> "thrown", value |-> <<>>, error |-> e, detail |-> d]

\* FormatPublicKey without the scheme marker
FormatPublicKeyBare(pubBytes) ==
  LET pubBigInt == BigIntFromHex(HexEncode(pubBytes))
  IN IF ~pubBigInt.ok THEN Thrown(pubBigInt.err, <<>>)
     ELSE Returned(<<"k">> \o BigIntToString(pubBigInt.val, Radix))

FormatPublicKey(pubBytes) ==
  LET hexString == HexEncode(pubBytes)
      pubBigInt == BigIntFromHex(hexString)
  IN IF ~pubBigInt.ok THEN Thrown(pubBigInt.err, <<>>)
     ELSE Returned(Scheme \o <<"k">> \o BigIntToString(pubBigInt.val, Radix))

\* StripScheme that drops every leading scheme marker, not only the first
RECURSIVE StripSchemeAll(_)
StripSchemeAll(address) ==
  IF StartsWith(address, <<"i", "p", "n", "s", ":", "/", "/">>)
  THEN StripSchemeAll(Slice(address, 7)) ELSE address

\* if (address.startsWith('ipns://')) address = address.slice(7)
StripScheme(address) ==
  IF StartsWith(address, Scheme) THEN Slice(address, SchemeLen) ELSE address

\* let result = 0n;
\* for (let i = 1; i < address.length; )
\*   result = result * 36n + BigInt(b36.indexOf(address.charAt(i++)))
Base36Value(address) ==
  LET Body(result, i) == BigIntMulAdd(result, Radix, IndexOf(b36, address[i + 1]))
  IN Loop(Body, [neg |-> FALSE, mag |-> <<>>], 1, Len(address))

\* result.toString(16).padStart(80, '0')
Base36HexKey(address) ==
  PadStart(BigIntToString(Base36Value(address), 16), HexKeyLen, "0")

\* the branch on the base indicator: the hexKey it leaves, or what it throws
HexKeyOf(address) ==
  IF StartsWith(address, <<"k">>) THEN Ok(Base36HexKey(address))
  ELSE IF StartsWith(address, <<"b">>)
  THEN LET d == Base32Decode(ToUpperCase(Slice(address, 1)))
       IN IF d.ok THEN Ok(HexEncode(d.val)) ELSE d
  ELSE IF StartsWith(address, <<"f">>) THEN Ok(Slice(address, 1))
  ELSE Err("Unsupported Base-X Format")

\* ValidHexKey without the test of the length
ValidHexKeyPrefixOnly(hexKey) == StartsWith(hexKey, KeyPrefixHex)

\* hexKey.startsWith('0172002408011220') && hexKey.length === 80
ValidHexKey(hexKey) == StartsWith(hexKey, KeyPrefixHex) /\ Len(hexKey) = HexKeyLen

\* parseAddress; the outcome also shows whether the call reached the check of
\* hexKey, and the local hexKey it checked
ParseAddress(addr) ==
  LET address == ToLowerCase(StripScheme(addr))
      h == HexKeyOf(address)
  IN IF ~h.ok THEN Thrown(h.err, <<>>) @@ [reached |-> FALSE, hexKey |-> <<>>]
     ELSE IF ValidHexKey(h.val)
     THEN LET b == HexDecode(h.val)
          IN (IF b.ok THEN Returned(b.val) ELSE Thrown(b.err, <<>>))
               @@ [reached |-> TRUE, hexKey |-> h.val]
     ELSE Thrown("Invalid IPNS Key Prefix: ", h.val)
            @@ [reached |-> TRUE, hexKey |-> h.val]

\* GetKeysBundle whose base32 address is left in upper case
GetKeysBundleUpper32(seed, pubKey) ==
  LET pubKeyBytes == PublicKeyTag \o pubKey
      hexKey == ToLowerCase(HexEncode(pubKeyBytes))
  IN [publicKey |-> <<"0", "x">> \o hexKey,
      privateKey |-> <<"0", "x">> \o HexEncode(PrivateKeyTag \o seed \o pubKey),
      base36 |-> Scheme \o <<"k">> \o BigIntToString(BigIntFromHex(hexKey).val, Radix),
      base32 |-> Scheme \o <<"b">> \o Base32Encode(pubKeyBytes),
      base16 |-> Scheme \o <<"f">> \o hexKey,
      contenthash |-> <<"0", "x", "e", "5", "0", "1">> \o hexKey]

\* what getKeys returns for a seed and the public key the provider gave for it
GetKeysBundle(seed, pubKey) ==
  LET pubKeyBytes == PublicKeyTag \o pubKey
      hexKey == ToLowerCase(HexEncode(pubKeyBytes))
  IN [publicKey |-> <<"0", "x">> \o hexKey,
      privateKey |-> <<"0", "x">> \o HexEncode(PrivateKeyTag \o seed \o pubKey),
      base36 |-> Scheme \o <<"k">> \o BigIntToString(BigIntFromHex(hexKey).val, Radix),
      base32 |-> Scheme \o <<"b">> \o ToLowerCase(Base32Encode(pubKeyBytes)),
      base16 |-> Scheme \o <<"f">> \o hexKey,
      contenthash |-> <<"0", "x", "e", "5", "0", "1">> \o hexKey]

\* SeedLengthBad that lets a longer seed through
SeedLengthShort(seed) == Len(seed) < SeedLen

\* seed.length != 32
SeedLengthBad(seed) == Len(seed) # SeedLen

(***************************************************************************)
(* Inputs                                                                  *)
(***************************************************************************)
\* the seed and the public key of test/ipns.test.js
VectorSeed ==
    <<6, 129, 214, 66, 10, 187, 27, 164, 122, 205, 92, 3, 200, 229, 238,
    132, 24, 90, 38, 115, 87, 107, 38, 46, 35, 78, 80, 196, 109, 134, 245,
    151>>
VectorPub ==
    <<18, 200, 41, 158, 194, 197, 29, 255, 187, 203, 79, 159, 204, 173,
    206, 225, 66, 76, 178, 55, 233, 179, 13, 60, 215, 45, 71, 193, 129, 3,
    104, 157>>
\* the address of test/ipns.test.js
VectorAddress ==
    <<"b", "a", "f", "z", "a", "a", "j", "a", "i", "a", "e", "j", "c", "a",
    "e", "w", "i", "f", "g", "p", "m", "f", "r", "i", "5", "7", "6", "5",
    "4", "w", "t", "4", "7", "z", "s", "w", "4", "5", "y", "k", "c", "j",
    "s", "z", "d", "p", "2", "n", "t", "b", "u", "6", "n", "o", "l", "k",
    "h", "y", "g", "a", "q", "g", "2", "e", "5">>
ZeroSeed == [i \in 1..SeedLen |-> 0]
ZeroPub == [i \in 1..32 |-> 0]
OnesPub == [i \in 1..32 |-> 255]

ValidSeeds == {VectorSeed, ZeroSeed}
BadSeeds == {<<>>, SubSeq(VectorSeed, 1, SeedLen - 1), Append(ZeroSeed, 7)}
Seeds == ValidSeeds \cup BadSeeds
PubKeys == {VectorPub, ZeroPub, OnesPub}

\* concurrent getKeys invocations
NumCalls == 2
Calls == 1..NumCalls

\* edits of an address: how many characters at either end of the payload are
\* replaced, dropped or added
MaxEdit == 2
\* calls composed on one value (parseAddress of formatPublicKey of ...)
MaxChain == 3

(***************************************************************************)
(* State                                                                   *)
(***************************************************************************)
VARIABLES
  provider,  \* the external key-material provider: seed -> ed25519 public key
  calls,     \* the getKeys invocations: position, seed, awaited public key, result
  chain      \* parseAddress / formatPublicKey calls, each on the previous one's value

vars == <<provider, calls, chain>>

NoBundle ==
  [publicKey |-> <<>>, privateKey |-> <<>>, base36 |-> <<>>, base32 |-> <<>>,
   base16 |-> <<>>, contenthash |-> <<>>]

IdleCall ==
  [pc |-> "idle", seed |-> <<>>, asked |-> FALSE, pubKey |-> <<>>,
   bundle |-> NoBundle, error |-> ""]

Init ==
  /\ provider \in [ValidSeeds -> PubKeys]
  /\ calls = [i \in Calls |-> IdleCall]
  /\ chain = <<>>

(***************************************************************************)
(* getKeys                                                                 *)
(***************************************************************************)
\* ed25519.getPublicKey(seed): a key for a 32-byte seed, an error otherwise
GetPublicKey(seed) ==
  IF seed \in DOMAIN provider THEN Ok(provider[seed])
  ELSE Err("Error: private key of wrong length")

\* the call up to its await: the length check, then the provider is asked
Start(i, seed) ==
  /\ calls[i].pc = "idle"
  /\ calls' = [calls EXCEPT ![i] =
       IF SeedLengthBad(seed)
       THEN [IdleCall EXCEPT !.pc = "thrown", !.seed = seed,
                             !.error = "TypeError: Seed must be 32 bytes in length"]
       ELSE LET k == GetPublicKey(seed)
            IN IF k.ok
               THEN [IdleCall EXCEPT !.pc = "awaiting", !.seed = seed,
                                     !.asked = TRUE, !.pubKey = k.val]
               ELSE [IdleCall EXCEPT !.pc = "thrown", !.seed = seed,
                                     !.asked = TRUE, !.error = k.err]]
  /\ UNCHANGED <<provider, chain>>

\* Resume with the awaited key kept in one place shared by all calls: the call
\* picks up the key of whichever call asked the provider
ResumeShared(i) ==
  /\ calls[i].pc = "awaiting"
  /\ \E j \in Calls :
       /\ calls[j].pc \in {"awaiting", "returned"}
       /\ calls' = [calls EXCEPT ![i] =
            [@ EXCEPT !.pc = "returned",
                      !.bundle = GetKeysBundle(calls[i].seed, calls[j].pubKey)]]
  /\ UNCHANGED <<provider, chain>>

\* the call from its await to its return
Resume(i) ==
  /\ calls[i].pc = "awaiting"
  /\ calls' = [calls EXCEPT ![i] =
       [@ EXCEPT !.pc = "returned",
                 !.bundle = GetKeysBundle(calls[i].seed, calls[i].pubKey)]]
  /\ UNCHANGED <<provider, chain>>

(***************************************************************************)
(* Callers of parseAddress and formatPublicKey                             *)
(***************************************************************************)
ParseCall(addr) == [fn |-> "parseAddress", arg |-> addr, out |-> ParseAddress(addr)]
FormatCall(bytes) ==
  [fn |-> "formatPublicKey", arg |-> bytes, out |-> FormatPublicKey(bytes)]

Forms == {"base36", "base32", "base16"}

\* an address of a bundle without its scheme marker
Bare(a) == Slice(a, SchemeLen)

SchemeVariants ==
  {<<>>, Scheme, ToUpperCase(Scheme), <<"I", "p", "N", "s", ":", "/", "/">>}
CaseModes == {"lower", "upper", "mixed"}
CaseVariant(s, mode) ==
  IF mode = "lower" THEN ToLowerCase(s)
  ELSE IF mode = "upper" THEN ToUpperCase(s)
  ELSE AsSeq([i \in 1..Len(s) |-> IF i % 2 = 1 THEN ToUpperCaseChar(s[i]) ELSE s[i]],
             Len(s))

\* positions of a bare address that an edit touches: the first and the last
\* MaxEdit characters of the payload
EditPositions(s) ==
  {p \in 2..Len(s) : p <= 1 + MaxEdit \/ p > Len(s) - MaxEdit}
EditChars == {"!", "=", "0", "z"}
Fill(n, ch) == AsSeq([i \in 1..n |-> ch], n)

OtherAddresses ==
  { <<>>, Scheme, Scheme \o <<"z", "X", "Y", "Z">>, <<"z">>, <<"k">>, <<"K", "!">>,
    <<"b">>, <<"F">> }

\* parseAddress on an address getKeys returned
ParseBundleAddress(c, f) ==
  /\ chain = <<>> /\ calls[c].pc = "returned"
  /\ chain' = <<ParseCall(calls[c].bundle[f])>>
  /\ UNCHANGED <<provider, calls>>

\* ... on the address with or without its scheme marker, in another letter case
ParseCaseVariant(c, f, scheme, mode) ==
  /\ chain = <<>> /\ calls[c].pc = "returned"
  /\ chain' = <<ParseCall(scheme \o CaseVariant(Bare(calls[c].bundle[f]), mode))>>
  /\ UNCHANGED <<provider, calls>>

\* ... with one character of the payload replaced
ParseEdited(c, f, ch) ==
  /\ chain = <<>> /\ calls[c].pc = "returned"
  /\ \E p \in EditPositions(Bare(calls[c].bundle[f])) :
       chain' = <<ParseCall(Scheme \o [Bare(calls[c].bundle[f]) EXCEPT ![p] = ch])>>
  /\ UNCHANGED <<provider, calls>>

\* ... with the payload cut short
ParseTruncated(c, f, n) ==
  /\ chain = <<>> /\ calls[c].pc = "returned"
  /\ LET a == calls[c].bundle[f]
     IN chain' = <<ParseCall(SubSeq(a, 1, Len(a) - n))>>
  /\ UNCHANGED <<provider, calls>>

\* ... with the payload extended
ParseExtended(c, f, n) ==
  /\ chain = <<>> /\ calls[c].pc = "returned"
  /\ chain' = <<ParseCall(calls[c].bundle[f] \o Fill(n, "0"))>>
  /\ UNCHANGED <<provider, calls>>

\* ... with the scheme marker written twice
ParseDoubleScheme(c, f) ==
  /\ chain = <<>> /\ calls[c].pc = "returned"
  /\ chain' = <<ParseCall(Scheme \o calls[c].bundle[f])>>
  /\ UNCHANGED <<provider, calls>>

\* ... on a string that is no address of a key
ParseOther(addr) ==
  /\ chain = <<>>
  /\ chain' = <<ParseCall(addr)>>
  /\ UNCHANGED <<provider, calls>>

\* formatPublicKey on the tagged public key of a bundle
FormatTagged(c) ==
  /\ chain = <<>> /\ calls[c].pc = "returned"
  /\ chain' = <<FormatCall(PublicKeyTag \o calls[c].pubKey)>>
  /\ UNCHANGED <<provider, calls>>

\* the other function applied to what the last call returned
Compose ==
  /\ chain # <<>> /\ Len(chain) < MaxChain
  /\ chain[Len(chain)].out.status = "returned"
  /\ chain' = Append(chain,
       IF chain[Len(chain)].fn = "parseAddress"
       THEN FormatCall(chain[Len(chain)].out.value)
       ELSE ParseCall(chain[Len(chain)].out.value))
  /\ UNCHANGED <<provider, calls>>

\* the caller is done with the values
Return ==
  /\ chain # <<>>
  /\ chain' = <<>>
  /\ UNCHANGED <<provider, calls>>

Next ==
  \/ \E i \in Calls, seed \in Seeds : Start(i, seed)
  \/ \E i \in Calls : Resume(i)

Spec == Init /\ [][Next]_vars

\* one getKeys call, then the codec on its addresses
NextCodec ==
  \/ \E seed \in ValidSeeds : Start(1, seed)
  \/ Resume(1)
  \/ \E f \in Forms : ParseBundleAddress(1, f)
  \/ \E f \in Forms, scheme \in SchemeVariants, mode \in CaseModes :
       ParseCaseVariant(1, f, scheme, mode)
  \/ \E f \in Forms, ch \in EditChars : ParseEdited(1, f, ch)
  \/ \E f \in Forms, n \in 1..MaxEdit : ParseTruncated(1, f, n)
  \/ \E f \in Forms, n \in 1..MaxEdit : ParseExtended(1, f, n)
  \/ \E f \in Forms : ParseDoubleScheme(1, f)
  \/ \E addr \in OtherAddresses : ParseOther(addr)
  \/ FormatTagged(1)
  \/ Compose
  \/ Return

\* the provider's key for ZeroSeed is fixed: the codec meets every key of PubKeys
\* through VectorSeed
InitCodec == Init /\ provider[ZeroSeed] = ZeroPub

SpecCodec == InitCodec /\ [][NextCodec]_vars

(***************************************************************************)
(* Properties                                                              *)
(***************************************************************************)
TaggedKey(c) == PublicKeyTag \o calls[c].pubKey
\* the ProtocolTag 01 72 00 24 08 01 12 20 in hexadecimal
TagHex ==
  <<"0", "1", "7", "2", "0", "0", "2", "4", "0", "8", "0", "1", "1", "2", "2", "0">>
ParseCalls == {k \in 1..Len(chain) : chain[k].fn = "parseAddress"}
IsHexLower(ch) == IndexOf(HexAlphabet, ch) >= 0
\* the byte that two hexadecimal characters spell
HexByte(hi, lo) == IndexOf(HexAlphabet, hi) * 16 + IndexOf(HexAlphabet, lo)
\* s spells the bytes in lower-case hexadecimal
SpellsHex(s, bytes) ==
  /\ Len(s) = 2 * Len(bytes)
  /\ \A i \in 1..Len(bytes) :
       /\ IsHexLower(s[2 * i - 1]) /\ IsHexLower(s[2 * i])
       /\ HexByte(s[2 * i - 1], s[2 * i]) = bytes[i]
\* bit j (from 1, most significant first) of a sequence of w-bit words
BitOf(words, w, j) ==
  (words[((j - 1) \div w) + 1] \div Pow2(w - 1 - ((j - 1) % w))) % 2
Base32Lower == ToLowerCase(Base32Alphabet)
\* s spells the bytes in lower-case RFC 4648 base 32 without padding (the bytes
\* fill a whole number of 5-bit groups)
SpellsBase32(s, bytes) ==
  /\ 5 * Len(s) = 8 * Len(bytes)
  /\ \A i \in 1..Len(s) : IndexOf(Base32Lower, s[i]) >= 0
  /\ LET words == [i \in 1..Len(s) |-> IndexOf(Base32Lower, s[i])]
     IN \A j \in 1..(8 * Len(bytes)) : BitOf(words, 5, j) = BitOf(bytes, 8, j)
\* s spells, in base-36 digits 0-9a-z without a leading 0, the bytes read as a
\* big-endian unsigned integer
SpellsBase36(s, bytes) ==
  /\ s # <<>> /\ s[1] # "0"
  /\ \A i \in 1..Len(s) : IndexOf(b36, s[i]) >= 0
  /\ Base36Value(<<"k">> \o s) = [neg |-> FALSE, mag |-> StripZeros(bytes)]
\* the address after one leading scheme marker is dropped and the rest lower-cased
Dispatched(addr) ==
  ToLowerCase(IF Len(addr) >= 7 /\ SubSeq(addr, 1, 7) = Scheme
              THEN SubSeq(addr, 8, Len(addr)) ELSE addr)

\* C1: parseAddress of each of the three addresses getKeys returned gives the
\* tagged public key 01 72 00 24 08 01 12 20 || p of that call, byte for byte,
\* through an intermediate hexKey of 80 characters (the base-36 branch gets the
\* leading 0 back from the padding)
RoundTrip ==
  \A c \in Calls, f \in Forms :
    (/\ calls[c].pc = "returned" /\ chain # <<>>
     /\ chain[1].fn = "parseAddress" /\ chain[1].arg = calls[c].bundle[f])
    => /\ chain[1].out.status = "returned"
       /\ chain[1].out.value = TaggedKey(c)
       /\ Len(chain[1].out.hexKey) = 80 /\ chain[1].out.hexKey[1] = "0"

RoundTripWitness ==
  /\ calls[1].pc = "returned" /\ chain # <<>>
  /\ chain[1].fn = "parseAddress" /\ chain[1].arg = calls[1].bundle.base36
  /\ chain[1].out.value = TaggedKey(1)

\* C2: an address that differs from a valid address (an address of a bundle,
\* with or without its scheme marker) only in letter case decodes to the same
\* bytes as the valid address
CaseInsensitiveDecode ==
  \A c \in Calls, f \in Forms :
    (/\ calls[c].pc = "returned" /\ chain # <<>> /\ chain[1].fn = "parseAddress"
     /\ \/ ToLowerCase(chain[1].arg) = calls[c].bundle[f]
        \/ ToLowerCase(chain[1].arg) = Bare(calls[c].bundle[f]))
    => LET ref == ParseAddress(ToLowerCase(chain[1].arg))
       IN /\ ref.status = "returned"
          /\ chain[1].out.status = "returned"
          /\ chain[1].out.value = ref.value

\* C3: for a bare base-32 address a of a tagged public key,
\* formatPublicKey(parseAddress(a)) is the string a
DecodeThenEncodeReproduces ==
  \A c \in Calls :
    (/\ calls[c].pc = "returned" /\ Len(chain) >= 2
     /\ chain[1].fn = "parseAddress" /\ chain[1].arg = Bare(calls[c].bundle.base32)
     /\ chain[2].fn = "formatPublicKey")
    => /\ chain[2].out.status = "returned"
       /\ chain[2].out.value = chain[1].arg

\* C4: for an address whose indicator is k and whose payload holds a character
\* outside 0-9a-z, parseAddress fails (with InvalidDigit) and never returns a
\* key
InvalidDigitRejected ==
  \A k \in ParseCalls :
    LET a == Dispatched(chain[k].arg)
    IN (/\ StartsWith(a, <<"k">>)
        /\ \E i \in 2..Len(a) : IndexOf(b36, a[i]) < 0)
       => chain[k].out.status = "thrown"

\* C5: parseAddress returns only 40 bytes that begin with the ProtocolTag, from
\* a hexKey of exactly 80 characters that starts with 0172002408011220; a call
\* that reaches the check with any other hexKey throws Invalid IPNS Key Prefix
\* with that hexKey
PrefixLengthValidated ==
  \A k \in ParseCalls :
    LET o == chain[k].out
        good == Len(o.hexKey) = 80 /\ StartsWith(o.hexKey, TagHex)
    IN /\ o.status = "returned"
          => /\ o.reached /\ good
             /\ Len(o.value) = 40 /\ SubSeq(o.value, 1, 8) = PublicKeyTag
       /\ (o.reached /\ ~good)
          => /\ o.status = "thrown"
             /\ o.error = "Invalid IPNS Key Prefix: " /\ o.detail = o.hexKey

PrefixLengthWitness ==
  /\ chain # <<>> /\ chain[1].fn = "parseAddress"
  /\ chain[1].out.reached /\ Len(chain[1].out.hexKey) = 80
  /\ ~StartsWith(chain[1].out.hexKey, TagHex)
  /\ chain[1].out.error = "Invalid IPNS Key Prefix: "

\* C6: an address whose first character, after one leading ipns:// is dropped
\* and the rest lower-cased, is not k, b or f (the empty address included) makes
\* parseAddress throw Unsupported Base-X Format before it decodes or checks
\* anything
UnsupportedFormatRejected ==
  \A k \in ParseCalls :
    LET a == Dispatched(chain[k].arg)
    IN (a = <<>> \/ a[1] \notin {"k", "b", "f"})
       => /\ chain[k].out.status = "thrown"
          /\ chain[k].out.error = "Unsupported Base-X Format"
          /\ ~chain[k].out.reached

UnsupportedFormatWitness ==
  /\ chain # <<>> /\ chain[1].fn = "parseAddress"
  /\ chain[1].arg = Scheme \o <<"z", "X", "Y", "Z">>
  /\ chain[1].out.error = "Unsupported Base-X Format"

\* C7: getKeys on a seed that is not 32 bytes long throws the TypeError without
\* asking the provider and leaves no bundle; on a 32-byte seed it never throws
\* that error
SeedLengthChecked ==
  \A i \in Calls :
    calls[i].pc # "idle"
    => /\ Len(calls[i].seed) # 32
          => /\ calls[i].pc = "thrown"
             /\ calls[i].error = "TypeError: Seed must be 32 bytes in length"
             /\ ~calls[i].asked
             /\ calls[i].bundle = NoBundle
       /\ Len(calls[i].seed) = 32
          => calls[i].error # "TypeError: Seed must be 32 bytes in length"

SeedLengthWitness ==
  /\ calls[1].pc = "thrown" /\ Len(calls[1].seed) = 33
  /\ calls[2].pc = "returned"

IndependentCalls ==
  [][\A i \in Calls :
       /\ calls[i].pc # "idle" => calls'[i].seed = calls[i].seed
       /\ calls'[i] # calls[i]
          => \A j \in Calls \ {i} : calls'[j] = calls[j]
       /\ (calls[i].pc # "returned" /\ calls'[i].pc = "returned")
          => calls'[i].bundle
               = GetKeysBundle(calls[i].seed, provider[calls[i].seed])]_vars

IndependentCallsWitness ==
  /\ calls[1].pc = "returned" /\ calls[2].pc = "returned"
  /\ calls[1].seed # calls[2].seed
  /\ calls[1].pubKey # calls[2].pubKey
  /\ calls[1].bundle # calls[2].bundle

====
